---- MODULE Spec2Model ----
(***************************************************************************)
(* tpcollections: a mapping persisted in an SQLite table, and the          *)
(* connection's stack of transaction scopes.                               *)
(*                                                                         *)
(* The table of a mapping is a set of rows (id, key, expire, value); the   *)
(* engine's AUTOINCREMENT counter (sqlite_sequence) is kept beside it.     *)
(* Keys are byte strings, modelled as sequences of small byte values and   *)
(* compared as SQLite's BINARY collation compares TEXT.                    *)
(***************************************************************************)
EXTENDS Integers, Sequences, FiniteSets, TLC

\* ------------------------------------------------------------------ bounds
NumValues == 2      \* values a caller stores: 1..NumValues
MaxSeq == 3         \* the AUTOINCREMENT counter stops the model here
MaxNow == 1         \* the engine clock runs 0..MaxNow
MaxDepth == 2       \* scopes open at once on the connection
MaxSuspended == 1   \* started generators awaiting their finalizer
MaxVersion == 2     \* schema versions a file may record: 0..MaxVersion

Keys == {<<1>>, <<1, 2>>, <<2>>}
TxnKeys == {<<1>>}
Values == 1..NumValues
Lifespans == {-1, 1}
NoVal == 0

\* ------------------------------------------------------- key comparison
\* ORDER BY key on a TEXT column: memcmp of the common prefix, then length.
\* faulty variant: shorter keys first, then byte by byte
KeyLessShortlex(a, b) ==
    \/ Len(a) < Len(b)
    \/ /\ Len(a) = Len(b)
       /\ \E i \in 1..Len(a) : a[i] < b[i] /\ \A j \in 1..(i - 1) : a[j] = b[j]

RECURSIVE KeyLess(_, _)
KeyLess(a, b) ==
    IF a = <<>> THEN b # <<>>
    ELSE IF b = <<>> THEN FALSE
    ELSE IF Head(a) # Head(b) THEN Head(a) < Head(b)
    ELSE KeyLess(Tail(a), Tail(b))

\* ------------------------------------------------------------ serializer
\* self._serializer.dumps / loads: the stored form of a value is tagged.
dumps(v) == <<"pickle", v>>
loads(b) == b[2]

\* ------------------------------------------------------------ statements
\* A table is [rows |-> set of rows, seq |-> sqlite_sequence of the table].
EmptyTable == [rows |-> {}, seq |-> 0]

RowOf(rows, k) == CHOOSE r \in rows : r.key = k
HasKey(rows, k) == \E r \in rows : r.key = k

\* faulty variant: DELETE FROM t WHERE expire < now
PurgeExpiredBefore(rows, t) == {r \in rows : ~(r.expire < t)}

\* DELETE FROM t WHERE expire <= now (the body of both triggers)
PurgeExpired(rows, t) == {r \in rows : ~(r.expire <= t)}

\* faulty variant: a table without AUTOINCREMENT hands out the smallest free id
InsertRowReuse(tbl, k, e, b, t) ==
    LET used == {r.id : r \in tbl.rows}
        id == CHOOSE i \in 1..(tbl.seq + 1) :
                  i \notin used /\ \A j \in 1..(i - 1) : j \in used
        row == [id |-> id, key |-> k, expire |-> e, value |-> b]
    IN [rows |-> PurgeExpired(tbl.rows \cup {row}, t), seq |-> tbl.seq + 1]

\* INSERT INTO t (key, expire, value) VALUES (...), then the insert trigger
InsertRow(tbl, k, e, b, t) ==
    LET id == tbl.seq + 1
        row == [id |-> id, key |-> k, expire |-> e, value |-> b]
    IN [rows |-> PurgeExpired(tbl.rows \cup {row}, t), seq |-> id]

\* faulty variant: the UPDATE leaves the value column out of its SET
UpdateRowExpire(tbl, k, e, b, t) ==
    [tbl EXCEPT !.rows = {IF r.key = k THEN [r EXCEPT !.expire = e] ELSE r : r \in tbl.rows}]

\* UPDATE t SET expire = ..., value = ... WHERE key = k, then the trigger
\* AFTER UPDATE OF value, fired when a row matched.
UpdateRow(tbl, k, e, b, t) ==
    LET hit == {r \in tbl.rows : r.key = k}
        new == {[r EXCEPT !.expire = e, !.value = b] : r \in hit}
        rows == (tbl.rows \ hit) \cup new
    IN [tbl EXCEPT !.rows = IF hit = {} THEN rows ELSE PurgeExpired(rows, t)]

\* faulty variant: INSERT OR REPLACE: the conflicting row is deleted and a new one made
UpsertReplace(tbl, k, e, b, t) ==
    LET id == tbl.seq + 1
        row == [id |-> id, key |-> k, expire |-> e, value |-> b]
        kept == {r \in tbl.rows : r.key # k}
    IN [rows |-> PurgeExpired(kept \cup {row}, t), seq |-> id]

\* INSERT ... ON CONFLICT (key) DO UPDATE SET value = excluded.value,
\* expire = excluded.expire.  The engine draws the next AUTOINCREMENT id
\* before it finds the conflict, so the counter advances on both paths.
Upsert(tbl, k, e, b, t) ==
    IF HasKey(tbl.rows, k)
    THEN [UpdateRow(tbl, k, e, b, t) EXCEPT !.seq = tbl.seq + 1]
    ELSE InsertRow(tbl, k, e, b, t)

\* faulty variant: DELETE FROM t WHERE key <= k
DeleteKeyUpTo(tbl, k) ==
    [tbl EXCEPT !.rows = {r \in tbl.rows : r.key # k /\ ~KeyLess(r.key, k)}]
\* faulty variant: the row count is not looked at
DeleteCountIgnored(tbl, k) == 1

\* DELETE FROM t WHERE key = k
DeleteKey(tbl, k) == [tbl EXCEPT !.rows = {r \in tbl.rows : r.key # k}]
\* cursor.rowcount of that statement
DeleteCount(tbl, k) == Cardinality({r \in tbl.rows : r.key = k})

\* faulty variant: DELETE FROM t WHERE id < (SELECT max(id) FROM t)
DeleteAllOlder(tbl) ==
    [tbl EXCEPT !.rows = {r \in tbl.rows : \A s \in tbl.rows : s.id <= r.id}]

\* DELETE FROM t
DeleteAll(tbl) == [tbl EXCEPT !.rows = {}]

\* faulty variant: the UPDATE of postpone without its WHERE clause
PostponeKeyNoWhere(tbl, k, e) ==
    [tbl EXCEPT !.rows = {[r EXCEPT !.expire = e] : r \in tbl.rows}]
\* UPDATE t SET expire = now + lifespan [WHERE key = k]: no trigger fires
PostponeKey(tbl, k, e) ==
    [tbl EXCEPT !.rows = {IF r.key = k THEN [r EXCEPT !.expire = e] ELSE r : r \in tbl.rows}]
PostponeRows(tbl, e) ==
    [tbl EXCEPT !.rows = {[r EXCEPT !.expire = e] : r \in tbl.rows}]

\* ------------------------------------------------------------- ordering
\* faulty variant: the direction is dropped from ORDER BY key
BeforeKeyAscending(order, dir, r, s) ==
    IF order = "id"
    THEN (IF dir = "ASC" THEN r.id < s.id ELSE s.id < r.id)
    ELSE KeyLess(r.key, s.key)

\* ORDER BY id|key ASC|DESC: Before(order, dir, r, s) is TRUE when row r
\* is emitted before row s.
Before(order, dir, r, s) ==
    LET lt == IF order = "id" THEN r.id < s.id ELSE KeyLess(r.key, s.key)
        gt == IF order = "id" THEN s.id < r.id ELSE KeyLess(s.key, r.key)
    IN IF dir = "ASC" THEN lt ELSE gt

RECURSIVE OrderBy(_, _, _)
OrderBy(rows, order, dir) ==
    IF rows = {} THEN <<>>
    ELSE LET first == CHOOSE r \in rows :
                        \A s \in rows \ {r} : Before(order, dir, r, s)
         IN <<first>> \o OrderBy(rows \ {first}, order, dir)

MapSeq(s, F(_)) == [i \in 1..Len(s) |-> F(s[i])]
KeyOfRow(r) == r.key
ValueOfRow(r) == loads(r.value)
ItemOfRow(r) == <<r.key, loads(r.value)>>

\* _Keys._iterator, _Values._iterator, _Items._iterator
KeysIterator(tbl, order, dir) == MapSeq(OrderBy(tbl.rows, order, dir), KeyOfRow)
ValuesIterator(tbl, order, dir) == MapSeq(OrderBy(tbl.rows, order, dir), ValueOfRow)
ItemsIterator(tbl, order, dir) == MapSeq(OrderBy(tbl.rows, order, dir), ItemOfRow)

\* Mapping.__len__, Mapping.__contains__
MappingLen(tbl) == Cardinality(tbl.rows)
MappingContains(tbl, k) == \E r \in tbl.rows : r.key = k


\* ------------------------------------------------------------- the state
VARIABLES
    now,            \* the engine's clock (UNIXEPOCH())
    lifespan,       \* Mapping._lifespan, in seconds
    upsert,         \* sqlite3.sqlite_version_info >= (3, 24)
    conn,           \* the sqlite3 connection: its view of the table, whether a
                    \* transaction is open, and the engine's savepoint stack
    disk,           \* the committed table in the storage file
    transactions,   \* Connection._transactions: the handles of the open scopes
    suspended,      \* generators that were started and wait at their yield
    ret,            \* what the last call returned or raised
    mode,           \* Connection._mode: how the connection opened the file
    file,           \* the rest of the storage file, as the connection sees it:
                    \* its tag, the bookkeeping table, the names in sqlite_master
    other,          \* the table of a second collection in the same file
    peer,           \* a second connection on the same file, while the first runs
    attached,       \* a second storage file, attached to the connection under an
                    \* alias: its tag, bookkeeping table and sqlite_master
    database,       \* the Database object used as a context manager: whether it
                    \* has the attribute _connection, the sqlite3 connections it
                    \* has opened and not closed, and (history) whether one of its
                    \* exits has raised
    entries,        \* history: the table as each open scope found it
    hist,           \* history: <<key, value>> of every key set and not deleted
                    \* since, in the order of its current insertion
    expired,        \* history: a set call has met a lifespan <= 0 or an expired row
                    \* since the last clear
    purged          \* history: the last call of the mapping was a set that removed
                    \* the row of another key

vars == <<now, lifespan, upsert, conn, disk, transactions, suspended, ret, mode, file,
          other, peer, attached, database, entries, hist, expired, purged>>

\* lock is the lock the connection holds on the file (rollback journal):
\* "none", "shared" once a transaction has read, "reserved" once it writes.
NewConnection(tbl) ==
    [tbl |-> tbl, inTxn |-> FALSE, bySavepoint |-> FALSE, saves |-> <<>>,
     lock |-> "none"]

Ret(op, raised, val) == [op |-> op, raised |-> raised, val |-> val]

\* A Database object after __init__: the slot _connection is not set.
Unentered == [held |-> FALSE, open |-> 0, failed |-> FALSE]

\* The other connection as it waits: its mode, its sqlite3 connection, the
\* scope bookkeeping of its Connection object and what its last call returned.
Waiting(id, m, c, stack, gens, found, last) ==
    [id |-> id, mode |-> m, conn |-> c, transactions |-> stack, suspended |-> gens,
     entries |-> found, ret |-> last]
NoPeer ==
    Waiting(0, "READ_WRITE", NewConnection(EmptyTable), <<>>, <<>>, <<>>,
            Ret("init", "none", NoVal))

\* What the engine refuses while the other connection holds a lock: a second
\* writer, and the commit of changes past a reader (the statement waits for
\* the timeout of the connection and then raises "database is locked").
PeerWrites == peer.conn.lock = "reserved"
PeerLocks == peer.conn.lock # "none"

\* ------------------------------------------------------------ the engine
\* Each statement maps (connection, file) to the pair after it and the
\* error it raised, if any.
Done(c, d) == [conn |-> c, disk |-> d, err |-> "none"]
Failed(c, d) == [conn |-> c, disk |-> d, err |-> "OperationalError"]

\* BEGIN: no lock is taken before the first statement
ExecBegin(c, d) ==
    IF c.inTxn THEN Failed(c, d)
    ELSE Done([c EXCEPT !.inTxn = TRUE, !.bySavepoint = FALSE], d)

\* BEGIN IMMEDIATE: the write lock is taken at once
ExecBeginImmediate(c, d) ==
    IF c.inTxn \/ PeerWrites THEN Failed(c, d)
    ELSE Done([c EXCEPT !.inTxn = TRUE, !.bySavepoint = FALSE, !.lock = "reserved"], d)

\* The end of a transaction: its changes, when it made any, become the file.
Committed(c, d) == IF c.lock = "reserved" THEN c.tbl ELSE d
CommitBusy(c) == c.lock = "reserved" /\ PeerLocks

\* COMMIT
ExecCommit(c, d) ==
    IF ~c.inTxn \/ CommitBusy(c) THEN Failed(c, d)
    ELSE Done([c EXCEPT !.tbl = Committed(c, d), !.inTxn = FALSE, !.bySavepoint = FALSE,
                        !.saves = <<>>, !.lock = "none"],
              Committed(c, d))

\* ROLLBACK
ExecRollback(c, d) ==
    IF ~c.inTxn THEN Failed(c, d)
    ELSE Done([c EXCEPT !.tbl = d, !.inTxn = FALSE, !.bySavepoint = FALSE,
                        !.saves = <<>>, !.lock = "none"], d)

\* SAVEPOINT name: outside a transaction it also opens one
ExecSavepoint(c, d) ==
    Done([c EXCEPT !.saves = Append(@, c.tbl), !.inTxn = TRUE,
                   !.bySavepoint = IF c.inTxn THEN @ ELSE TRUE], d)

\* ROLLBACK TO name: back to the most recent savepoint of that name
ExecRollbackTo(c, d) ==
    IF c.saves = <<>> THEN Failed(c, d)
    ELSE Done([c EXCEPT !.tbl = c.saves[Len(c.saves)]], d)

\* RELEASE name: releasing the savepoint that opened the transaction commits
ExecRelease(c, d) ==
    IF c.saves = <<>> THEN Failed(c, d)
    ELSE LET rest == SubSeq(c.saves, 1, Len(c.saves) - 1)
         IN IF rest = <<>> /\ c.bySavepoint
            THEN IF CommitBusy(c) THEN Failed(c, d)
                 ELSE Done([c EXCEPT !.tbl = Committed(c, d), !.saves = rest,
                                     !.inTxn = FALSE, !.bySavepoint = FALSE,
                                     !.lock = "none"],
                           Committed(c, d))
            ELSE Done([c EXCEPT !.saves = rest], d)

\* An INSERT, UPDATE or DELETE through the sqlite3 module: the module opens a
\* transaction first when none is open.
ImplicitBegin(c) ==
    [c EXCEPT !.inTxn = TRUE, !.bySavepoint = IF c.inTxn THEN @ ELSE FALSE]
ExecWrite(c, tbl) ==
    [ImplicitBegin(c) EXCEPT !.tbl = tbl, !.lock = "reserved"]

\* A SELECT: inside a transaction its read lock is kept to the end of the
\* transaction, outside it is gone with the statement.
ExecRead(c) ==
    IF c.inTxn /\ c.lock = "none" THEN [c EXCEPT !.lock = "shared"] ELSE c

\* ------------------------------------------------------------ the scopes
\* The generator functions transaction() and savepoint(): Start runs a fresh
\* generator to its yield, Resume continues it from the yield, either
\* normally ("next") or with an exception raised at the yield ("throw").
transactionStart(c, d) ==
    IF mode # "READ_WRITE" THEN ExecBegin(c, d) ELSE ExecBeginImmediate(c, d)
transactionResume(how, c, d) ==
    IF how = "throw" THEN ExecRollback(c, d) ELSE ExecCommit(c, d)

savepointStart(c, d) == ExecSavepoint(c, d)
savepointResume(how, c, d) ==
    IF how = "throw"
    THEN LET back == ExecRollbackTo(c, d)
             rel == ExecRelease(back.conn, back.disk)    \* finally:
         IN IF back.err = "none" THEN rel
            ELSE [rel EXCEPT !.err = back.err]
    ELSE ExecRelease(c, d)

Start(kind, c, d) ==
    IF kind = "transaction" THEN transactionStart(c, d) ELSE savepointStart(c, d)
Resume(kind, how, c, d) ==
    IF kind = "transaction" THEN transactionResume(how, c, d)
    ELSE savepointResume(how, c, d)

\* Connection.__enter__: the handle is made and pushed; its generator has
\* not run a statement yet.
NewHandle(stack) == IF stack # <<>> THEN "savepoint" ELSE "transaction"

EnterScope ==
    /\ Len(transactions) < MaxDepth
    /\ transactions' = Append(transactions, NewHandle(transactions))
    /\ entries' = Append(entries, conn.tbl)
    /\ ret' = Ret("enter", "none", NoVal)
    /\ UNCHANGED <<now, lifespan, upsert, conn, disk, suspended, mode, peer, attached, database, file, other, hist, expired, purged>>

\* Connection.__exit__ with no exception: the popped handle's __exit__ calls
\* next() on its generator, which starts it; a generator that then waits at
\* its yield "didn't stop", and it is closed (an exception raised at the
\* yield) at once or when the runtime finalizes it.
ExitScope(closeNow) ==
    /\ transactions # <<>>
    /\ LET kind == transactions[Len(transactions)]
           started == Start(kind, conn, disk)
           closed == Resume(kind, "throw", started.conn, started.disk)
       IN /\ transactions' = SubSeq(transactions, 1, Len(transactions) - 1)
          /\ IF started.err # "none"
             THEN /\ conn' = started.conn
                  /\ disk' = started.disk
                  /\ suspended' = suspended
                  /\ ret' = Ret("exit", started.err, NoVal)
             ELSE /\ ret' = Ret("exit", "RuntimeError", NoVal)
                  /\ IF closeNow
                     THEN /\ conn' = closed.conn
                          /\ disk' = closed.disk
                          /\ suspended' = suspended
                     ELSE /\ Len(suspended) < MaxSuspended
                          /\ conn' = started.conn
                          /\ disk' = started.disk
                          /\ suspended' = Append(suspended, kind)
    /\ entries' = SubSeq(entries, 1, Len(entries) - 1)
    /\ UNCHANGED <<now, lifespan, upsert, mode, peer, attached, database, file, other, hist, expired, purged>>

\* Connection.__exit__ with the exception the scope's body raised: it is
\* thrown into the generator, which has not started and so runs no
\* statement; the exception propagates.
ExitScopeFailing ==
    /\ transactions # <<>>
    /\ transactions' = SubSeq(transactions, 1, Len(transactions) - 1)
    /\ ret' = Ret("exit_failing", "BodyError", NoVal)
    /\ entries' = SubSeq(entries, 1, Len(entries) - 1)
    /\ UNCHANGED <<now, lifespan, upsert, conn, disk, suspended, mode, peer, attached, database, file, other, hist, expired, purged>>

\* The runtime finalizes a generator left at its yield: GeneratorExit is
\* raised there, and what the statements raise is discarded.
Finalize(i) ==
    /\ i \in 1..Len(suspended)
    /\ LET closed == Resume(suspended[i], "throw", conn, disk)
       IN /\ conn' = closed.conn
          /\ disk' = closed.disk
    /\ suspended' = SubSeq(suspended, 1, i - 1) \o SubSeq(suspended, i + 1, Len(suspended))
    /\ ret' = Ret("finalize", "none", NoVal)
    /\ UNCHANGED <<now, lifespan, upsert, transactions, entries, mode, peer, attached, database, file, other, hist, expired, purged>>

\* _connect: the connection is closed, which discards an open transaction,
\* and the file is opened again.
Reconnect ==
    /\ conn' = NewConnection(disk)
    /\ transactions' = <<>>
    /\ suspended' = <<>>
    /\ entries' = <<>>
    /\ ret' = Ret("connect", "none", NoVal)
    /\ UNCHANGED <<now, lifespan, upsert, disk, mode, peer, attached, database, file, other, hist, expired, purged>>

\* What a connection sees when it runs again after the other one: without a
\* lock of its own, the file as it is now.
Refresh(c, d) ==
    IF c.lock = "none"
    THEN [c EXCEPT !.tbl = d, !.saves = [i \in 1..Len(@) |-> d]]
    ELSE c

\* The caller's other thread runs: the connection that ran waits, the one
\* that waited runs.
Switch ==
    /\ peer.id # 0
    /\ peer' = Waiting(3 - peer.id, mode, conn, transactions, suspended, entries, ret)
    /\ mode' = peer.mode
    /\ conn' = Refresh(peer.conn, disk)
    /\ transactions' = peer.transactions
    /\ suspended' = peer.suspended
    /\ entries' = peer.entries
    /\ ret' = peer.ret
    /\ UNCHANGED <<now, lifespan, upsert, disk, file, other, attached, database, hist,
                   expired, purged>>

\* ----------------------------------------------------------- the mapping
TableKeys(tbl) == {r.key : r \in tbl.rows}

\* The modes a file is opened in; all but the first open it so that the
\* engine refuses every write.
Modes == {"READ_WRITE", "READ_ONLY", "IMMUTABLE"}
ReadOnly(m) == m # "READ_WRITE"

\* The tables of the two collections.
MainTable == "mapping"
OtherTable == "other"

\* An INSERT, UPDATE or DELETE of a mapping method: the sqlite3 module opens
\* its transaction, and the engine then refuses the statement on a file not
\* opened for writing.
ExecDML(m, c, tbl) ==
    IF ReadOnly(m) \/ PeerWrites
    THEN [conn |-> ImplicitBegin(c), err |-> "OperationalError"]
    ELSE [conn |-> ExecWrite(c, tbl), err |-> "none"]

\* faulty variant: the purge of a trigger reaches the other tables
TriggerDeleteAnyTable(target, name, rows, t) == PurgeExpired(rows, t)

\* The DELETE in the body of the triggers of table target, as it acts on the
\* rows of table name.
TriggerDelete(target, name, rows, t) ==
    IF target = name THEN PurgeExpired(rows, t) ELSE rows

\* faulty variant: the UPDATE of the engine without upsert leaves expire out of its SET
SetitemTableKeepExpire(tbl, k, v, life, t, up) ==
    IF up THEN Upsert(tbl, k, t + life, dumps(v), t)
    ELSE IF MappingContains(tbl, k)
    THEN UpdateRow(tbl, k, RowOf(tbl.rows, k).expire, dumps(v), t)
    ELSE InsertRow(tbl, k, t + life, dumps(v), t)

\* Mapping.__setitem__: one upsert statement, or on an engine without it
\* "key in self" and then an UPDATE or an INSERT.
SetitemTable(tbl, k, v, life, t, up) ==
    IF up THEN Upsert(tbl, k, t + life, dumps(v), t)
    ELSE IF MappingContains(tbl, k) THEN UpdateRow(tbl, k, t + life, dumps(v), t)
    ELSE InsertRow(tbl, k, t + life, dumps(v), t)

Setitem(k, v) ==
    /\ conn.tbl.seq < MaxSeq
    /\ LET w == ExecDML(mode, conn, SetitemTable(conn.tbl, k, v, lifespan, now, upsert))
       IN /\ conn' = w.conn
          /\ ret' = Ret("setitem", w.err, NoVal)
          /\ other' = IF w.err # "none" THEN other
                      ELSE [other EXCEPT
                               !.rows = TriggerDelete(MainTable, OtherTable, @, now)]
    /\ UNCHANGED <<now, lifespan, upsert, disk, transactions, suspended, entries, mode, peer, attached, database,
                   file>>

\* Mapping.__delitem__
Delitem(k) ==
    /\ LET w == ExecDML(mode, conn, DeleteKey(conn.tbl, k))
       IN /\ conn' = w.conn
          /\ ret' = Ret("delitem",
                        IF w.err # "none" THEN w.err
                        ELSE IF DeleteCount(conn.tbl, k) # 1 THEN "KeyError"
                        ELSE "none",
                        NoVal)
    /\ UNCHANGED <<now, lifespan, upsert, disk, transactions, suspended, entries, mode, peer, attached, database,
                   file, other>>

\* Mapping.__getitem__
GetitemResult(tbl, k) ==
    IF HasKey(tbl.rows, k)
    THEN Ret("getitem", "none", loads(RowOf(tbl.rows, k).value))
    ELSE Ret("getitem", "KeyError", NoVal)

\* faulty variant: the read filters the rows past their expiry and drops them
GetitemPurging(k) ==
    /\ conn' = [conn EXCEPT !.tbl.rows = PurgeExpired(@, now)]
    /\ ret' = GetitemResult(conn'.tbl, k)
    /\ UNCHANGED <<now, lifespan, upsert, disk, transactions, suspended, entries, mode, peer, attached, database, file, other>>

Getitem(k) ==
    /\ ret' = GetitemResult(conn.tbl, k)
    /\ conn' = ExecRead(conn)
    /\ UNCHANGED <<now, lifespan, upsert, disk, transactions, suspended, entries, mode, peer, attached, database, file, other>>

\* Mapping.__contains__, __len__, __bool__
Contains(k) ==
    /\ ret' = Ret("contains", "none", MappingContains(conn.tbl, k))
    /\ conn' = ExecRead(conn)
    /\ UNCHANGED <<now, lifespan, upsert, disk, transactions, suspended, entries, mode, peer, attached, database, file, other>>

Length ==
    /\ ret' = Ret("len", "none", MappingLen(conn.tbl))
    /\ conn' = ExecRead(conn)
    /\ UNCHANGED <<now, lifespan, upsert, disk, transactions, suspended, entries, mode, peer, attached, database, file, other>>

Bool ==
    /\ ret' = Ret("bool", "none", MappingLen(conn.tbl) > 0)
    /\ conn' = ExecRead(conn)
    /\ UNCHANGED <<now, lifespan, upsert, disk, transactions, suspended, entries, mode, peer, attached, database, file, other>>

\* tuple(m.keys(order)), tuple(reversed(m.keys(order))), and the same of
\* values() and items(): a fresh iteration run to its end
IterateResult(what, tbl, order, dir) ==
    IF what = "keys" THEN KeysIterator(tbl, order, dir)
    ELSE IF what = "values" THEN ValuesIterator(tbl, order, dir)
    ELSE ItemsIterator(tbl, order, dir)

Iterate(what, order, dir) ==
    /\ ret' = Ret(what, "none", IterateResult(what, conn.tbl, order, dir))
    /\ conn' = ExecRead(conn)
    /\ UNCHANGED <<now, lifespan, upsert, disk, transactions, suspended, entries, mode, peer, attached, database, file, other>>

\* Mapping.clear
Clear ==
    /\ LET w == ExecDML(mode, conn, DeleteAll(conn.tbl))
       IN conn' = w.conn /\ ret' = Ret("clear", w.err, NoVal)
    /\ UNCHANGED <<now, lifespan, upsert, disk, transactions, suspended, entries, mode, peer, attached, database,
                   file, other>>

\* Mapping.postpone, Mapping.postpone_all
Postpone(k) ==
    /\ LET w == ExecDML(mode, conn, PostponeKey(conn.tbl, k, now + lifespan))
       IN conn' = w.conn /\ ret' = Ret("postpone", w.err, NoVal)
    /\ UNCHANGED <<now, lifespan, upsert, disk, transactions, suspended, entries, mode, peer, attached, database,
                   file, other>>

PostponeAll ==
    /\ LET w == ExecDML(mode, conn, PostponeRows(conn.tbl, now + lifespan))
       IN conn' = w.conn /\ ret' = Ret("postpone_all", w.err, NoVal)
    /\ UNCHANGED <<now, lifespan, upsert, disk, transactions, suspended, entries, mode, peer, attached, database,
                   file, other>>

\* faulty variant: the setter restamps the rows already stored
SetLifespanRetroactive(l) ==
    /\ l # lifespan
    /\ lifespan' = l
    /\ conn' = ExecWrite(conn, PostponeRows(conn.tbl, now + l))
    /\ ret' = Ret("lifespan", "none", NoVal)
    /\ UNCHANGED <<now, upsert, disk, transactions, suspended, entries, mode, peer, attached, database, file, other>>

\* Mapping.lifespan (setter)
SetLifespan(l) ==
    /\ l # lifespan
    /\ lifespan' = l
    /\ ret' = Ret("lifespan", "none", NoVal)
    /\ UNCHANGED <<now, upsert, conn, disk, transactions, suspended, entries, mode, peer, attached, database, file, other>>

\* A second passes on the engine's clock.
Tick ==
    /\ now < MaxNow
    /\ now' = now + 1
    /\ ret' = Ret("tick", "none", NoVal)
    /\ UNCHANGED <<lifespan, upsert, conn, disk, transactions, suspended, entries, mode, peer, attached, database, file, other>>

\* ---------------------------------------------------------- the registry
\* The storage file apart from the rows of the collections: application_id
\* and user_version of its header, whether the table tpcollections exists,
\* its rows, and the names sqlite_master lists besides it.
APPLICATION_ID == -1238962565
USER_VERSION == 1
ForeignId == 7
Names == {MainTable, OtherTable}
Types == {"mapping", "expiring-mapping"}
Bookkeeping == "tpcollections"

FreshFile ==
    [appId |-> 0, userVersion |-> 0, bookkeeping |-> FALSE, registry |-> {},
     master |-> {}]

HasRecord(f, name) == \E rec \in f.registry : rec.name = name
RecordOf(f, name) == CHOOSE rec \in f.registry : rec.name = name

\* A statement of a constructor maps (connection, file) to the pair after
\* it and the error it raised; a statement after an error does not run.
Step(c, f) == [conn |-> c, file |-> f, err |-> "none"]
Raise(st, err) == [st EXCEPT !.err = err]

\* faulty variant: the tag is written whatever the file holds
TagUnsetAlways(v) == TRUE

TagUnset(v) == v = 0

\* PRAGMA application_id, PRAGMA application_id = APPLICATION_ID
CheckApplicationId(m, st) ==
    IF st.err # "none" THEN st
    ELSE IF TagUnset(st.file.appId)
    THEN IF ReadOnly(m) THEN Raise(st, "OperationalError")
         ELSE [st EXCEPT !.file.appId = APPLICATION_ID]
    ELSE IF st.file.appId # APPLICATION_ID
    THEN Raise(st, "ValueError: application_id")
    ELSE st

\* PRAGMA user_version, PRAGMA user_version = 1
CheckUserVersion(m, st) ==
    IF st.err # "none" THEN st
    ELSE IF TagUnset(st.file.userVersion)
    THEN IF ReadOnly(m) THEN Raise(st, "OperationalError")
         ELSE [st EXCEPT !.file.userVersion = USER_VERSION]
    ELSE IF st.file.userVersion # USER_VERSION
    THEN Raise(st, "ValueError: user_version")
    ELSE st

\* CREATE TABLE IF NOT EXISTS tpcollections, on a writable connection
CreateBookkeeping(m, st) ==
    IF st.err # "none" \/ ReadOnly(m) THEN st
    ELSE [st EXCEPT !.file.bookkeeping = TRUE]

\* faulty variant: an object of that name is adopted
NameTakenNever(f, name) == FALSE

\* SELECT 1 FROM sqlite_master WHERE name = ?
NameTaken(f, name) ==
    name \in f.master \/ (f.bookkeeping /\ name = Bookkeeping)

\* faulty variant: the recorded type is not compared
TypeMismatchNever(type, existing) == FALSE

TypeMismatch(type, existing) == type # existing

\* faulty variant: the record is inserted before sqlite_master is looked at
RegisterThenLook(m, st, name, type) ==
    IF st.err # "none" THEN st
    ELSE IF ~st.file.bookkeeping THEN Raise(st, "OperationalError")
    ELSE IF ~HasRecord(st.file, name)
    THEN LET w == ExecDML(m, st.conn, st.conn.tbl)
             put == [st EXCEPT
                        !.conn = w.conn,
                        !.file.registry =
                            @ \cup {[name |-> name, type |-> type, version |-> 0]}]
         IN IF w.err # "none" THEN [st EXCEPT !.conn = w.conn, !.err = w.err]
            ELSE IF NameTaken(st.file, name) THEN Raise(put, "NameError")
            ELSE put
    ELSE IF TypeMismatch(type, RecordOf(st.file, name).type)
    THEN Raise(st, "ValueError: type")
    ELSE st

\* SELECT type FROM tpcollections WHERE name = ?, and what follows it
Register(m, st, name, type) ==
    IF st.err # "none" THEN st
    ELSE IF ~st.file.bookkeeping THEN Raise(st, "OperationalError")
    ELSE IF ~HasRecord(st.file, name)
    THEN IF NameTaken(st.file, name) THEN Raise(st, "NameError")
         ELSE LET w == ExecDML(m, st.conn, st.conn.tbl)
              IN IF w.err # "none" THEN [st EXCEPT !.conn = w.conn, !.err = w.err]
                 ELSE [st EXCEPT
                          !.conn = w.conn,
                          !.file.registry =
                              @ \cup {[name |-> name, type |-> type, version |-> 0]}]
    ELSE IF TypeMismatch(type, RecordOf(st.file, name).type)
    THEN Raise(st, "ValueError: type")
    ELSE st

\* Base.__init__
BaseInit(m, c, f, name, type) ==
    Register(m,
             CreateBookkeeping(m, CheckUserVersion(m, CheckApplicationId(m, Step(c, f)))),
             name, type)

\* Base._version
RecordedVersion(f, name) == RecordOf(f, name).version

\* The rows of table name copied into the table created in its place: new
\* ids in the order of the old ones, each INSERT firing the insert trigger.
Migrated(tbl, t) ==
    LET old == OrderBy(tbl.rows, "id", "ASC")
        new == {[id |-> i, key |-> old[i].key, expire |-> old[i].expire,
                 value |-> old[i].value] : i \in 1..Len(old)}
    IN [rows |-> PurgeExpired(new, t), seq |-> Len(old)]

\* Mapping.__init__ after Base.__init__: the schema is created when PRAGMA
\* user_version reads less than 1 and refused when it reads more than 1.
CreateSchema(st, name, t) ==
    LET migrate == name \in st.file.master
        tbl == IF name # MainTable THEN st.conn.tbl
               ELSE IF migrate THEN Migrated(st.conn.tbl, t)
               ELSE EmptyTable
    IN [st EXCEPT !.file.master = @ \cup {name},
                  !.file.userVersion = 1,
                  !.conn = IF migrate /\ name = MainTable THEN ExecWrite(@, tbl)
                           ELSE [@ EXCEPT !.tbl = tbl]]

MappingInit(m, c, f, name, t) ==
    LET st == BaseInit(m, c, f, name, "mapping")
    IN IF st.err # "none" THEN st
       ELSE IF st.file.userVersion < 1 THEN CreateSchema(st, name, t)
       ELSE IF st.file.userVersion > 1 THEN Raise(st, "ValueError: schema")
       ELSE st

\* Mapping(connection, table=name)
ConstructMapping(name) ==
    /\ LET st == MappingInit(mode, conn, file, name, now)
       IN /\ conn' = st.conn
          /\ file' = st.file
          /\ ret' = Ret("construct", st.err, NoVal)
    /\ UNCHANGED <<now, lifespan, upsert, disk, transactions, suspended, entries, mode, peer, attached, database,
                   other>>

\* Base.__init__ with a database other than main.  The two PRAGMAs and the
\* SELECT on sqlite_master name no database and so read and write the main
\* file; the statements on {database}.tpcollections act on the attached one.
CreateBookkeepingIn(m, st) ==
    IF st.err # "none" \/ ReadOnly(m) THEN st
    ELSE [st EXCEPT !.attached.bookkeeping = TRUE]

RegisterIn(m, st, name, type) ==
    IF st.err # "none" THEN st
    ELSE IF ~st.attached.bookkeeping THEN Raise(st, "OperationalError")
    ELSE IF ~HasRecord(st.attached, name)
    THEN IF NameTaken(st.file, name) THEN Raise(st, "NameError")
         ELSE LET w == ExecDML(m, st.conn, st.conn.tbl)
              IN IF w.err # "none" THEN [st EXCEPT !.conn = w.conn, !.err = w.err]
                 ELSE [st EXCEPT
                          !.conn = w.conn,
                          !.attached.registry =
                              @ \cup {[name |-> name, type |-> type, version |-> 0]}]
    ELSE IF TypeMismatch(type, RecordOf(st.attached, name).type)
    THEN Raise(st, "ValueError: type")
    ELSE st

StepIn(c, f, a) == [conn |-> c, file |-> f, attached |-> a, err |-> "none"]

BaseInitIn(m, c, f, a, name, type) ==
    RegisterIn(m,
               CreateBookkeepingIn(m,
                   CheckUserVersion(m, CheckApplicationId(m, StepIn(c, f, a)))),
               name, type)

\* Mapping.__init__ after it: PRAGMA user_version names no database either,
\* and the schema statements name the table without one.
MappingInitIn(m, c, f, a, name, t) ==
    LET st == BaseInitIn(m, c, f, a, name, "mapping")
    IN IF st.err # "none" THEN st
       ELSE IF st.file.userVersion < 1 THEN CreateSchema(st, name, t)
       ELSE IF st.file.userVersion > 1 THEN Raise(st, "ValueError: schema")
       ELSE st

\* Mapping(connection, database=alias, table=name)
ConstructAttached(name) ==
    /\ LET st == MappingInitIn(mode, conn, file, attached, name, now)
       IN /\ conn' = st.conn
          /\ file' = st.file
          /\ attached' = st.attached
          /\ ret' = Ret("construct in", st.err, NoVal)
    /\ UNCHANGED <<now, lifespan, upsert, disk, transactions, suspended, entries, mode, peer,
                   database, other>>

\* ---------------------------------------------------------- the database
\* faulty variant: the assertion is left out, a second connection is opened
\* and takes the place of the first in _connection
DatabaseEnterNested(canOpen) ==
    /\ IF ~canOpen
       THEN /\ database' = [database EXCEPT !.held = TRUE]
            /\ ret' = Ret("database enter", "OperationalError", NoVal)
            /\ UNCHANGED <<conn, transactions, suspended, entries>>
       ELSE /\ database' = [database EXCEPT !.held = TRUE, !.open = @ + 1]
            /\ conn' = NewConnection(disk)
            /\ transactions' = <<>>
            /\ suspended' = <<>>
            /\ entries' = <<>>
            /\ ret' = Ret("database enter", "none", NoVal)
    /\ UNCHANGED <<now, lifespan, upsert, disk, mode, peer, attached, file, other>>

\* Database.__enter__: the assertion, then _connection is set to the context
\* manager self() returns, then that is entered: sqlite3.connect opens the
\* file, or raises when the file cannot be opened.
DatabaseEnter(canOpen) ==
    /\ IF database.held
       THEN /\ ret' = Ret("database enter", "AssertionError", NoVal)
            /\ UNCHANGED <<database, conn, transactions, suspended, entries>>
       ELSE IF ~canOpen
       THEN /\ database' = [database EXCEPT !.held = TRUE]
            /\ ret' = Ret("database enter", "OperationalError", NoVal)
            /\ UNCHANGED <<conn, transactions, suspended, entries>>
       ELSE /\ database' = [database EXCEPT !.held = TRUE, !.open = @ + 1]
            /\ conn' = NewConnection(disk)
            /\ transactions' = <<>>
            /\ suspended' = <<>>
            /\ entries' = <<>>
            /\ ret' = Ret("database enter", "none", NoVal)
    /\ UNCHANGED <<now, lifespan, upsert, disk, mode, peer, attached, file, other>>

\* Database.__exit__, with or without an exception of the body: the context
\* manager in _connection is exited, which runs the PRAGMAs of _connect on a
\* writable connection (they may raise) and closes the connection, discarding
\* what it has not committed; finally: del self._connection.  Without the
\* attribute both the try and the finally raise AttributeError.  A context
\* manager whose __enter__ had raised has nothing to close and returns.
DatabaseExit(pragmaFails) ==
    /\ IF ~database.held
       THEN /\ ret' = Ret("database exit", "AttributeError", NoVal)
            /\ UNCHANGED <<database, conn, transactions, suspended, entries>>
       ELSE LET raises == database.open > 0 /\ mode = "READ_WRITE" /\ pragmaFails
            IN /\ database' = [held |-> FALSE,
                               open |-> IF database.open > 0 THEN database.open - 1 ELSE 0,
                               failed |-> database.failed \/ raises]
               /\ conn' = NewConnection(disk)
               /\ transactions' = <<>>
               /\ suspended' = <<>>
               /\ entries' = <<>>
               /\ ret' = Ret("database exit",
                             IF raises THEN "OperationalError" ELSE "none", NoVal)
    /\ UNCHANGED <<now, lifespan, upsert, disk, mode, peer, attached, file, other>>

\* ---------------------------------------------------------- the history
\* The set / delete / clear calls so far, kept as an ordered dictionary.
HistKeys(h) == {h[i][1] : i \in 1..Len(h)}
HistValue(h, k) == h[CHOOSE i \in 1..Len(h) : h[i][1] = k][2]
HistOrder(h) == [i \in 1..Len(h) |-> h[i][1]]
HistDel(h, k) == SelectSeq(h, LAMBDA p : p[1] # k)
HistSet(h, k, v) ==
    IF k \in HistKeys(h)
    THEN [i \in 1..Len(h) |-> IF h[i][1] = k THEN <<k, v>> ELSE h[i]]
    ELSE Append(h, <<k, v>>)

Recorded(k, v) ==
    /\ hist' = HistSet(hist, k, v)
    /\ expired' = (expired \/ lifespan <= 0 \/ \E r \in conn.tbl.rows : r.expire <= now)
    /\ purged' = \E r \in conn.tbl.rows : r.key # k /\ ~HasKey(conn'.tbl.rows, r.key)
Forgotten(k) == hist' = HistDel(hist, k) /\ expired' = expired /\ purged' = FALSE
Emptied == hist' = <<>> /\ expired' = FALSE /\ purged' = FALSE
Kept == UNCHANGED <<hist, expired>> /\ purged' = FALSE

\* ------------------------------------------------------- specifications
\* A file in which both collections are registered and have their tables.
RegisteredFile ==
    [appId |-> APPLICATION_ID, userVersion |-> USER_VERSION, bookkeeping |-> TRUE,
     registry |-> {[name |-> n, type |-> "mapping", version |-> 1] : n \in Names},
     master |-> Names]

\* The second collection holds a row past its expiry and a row before it.
OtherStored ==
    [rows |-> {[id |-> 1, key |-> <<1>>, expire |-> -1, value |-> dumps(1)],
               [id |-> 2, key |-> <<2>>, expire |-> MaxNow + 1, value |-> dumps(2)]},
     seq |-> 2]

InitCommon ==
    /\ now = 0
    /\ mode = "READ_WRITE"
    /\ file = RegisteredFile
    /\ other = OtherStored
    /\ peer = NoPeer
    /\ attached = FreshFile
    /\ database = Unentered
    /\ disk = EmptyTable
    /\ conn = NewConnection(disk)
    /\ transactions = <<>>
    /\ suspended = <<>>
    /\ entries = <<>>
    /\ ret = Ret("init", "none", NoVal)
    /\ hist = <<>>
    /\ expired = FALSE
    /\ purged = FALSE

\* A mapping on a fresh table, used through one connection: the calls of the
\* mapping alone, with their history.
InitMap == InitCommon /\ lifespan \in Lifespans /\ upsert \in BOOLEAN

NextMap ==
    \/ \E k \in Keys, v \in Values : Setitem(k, v) /\ Recorded(k, v)
    \/ \E k \in Keys : Delitem(k) /\ Forgotten(k)
    \/ \E k \in Keys : Getitem(k) /\ Kept
    \/ Clear /\ Emptied
    \/ \E k \in Keys : Postpone(k) /\ Kept
    \/ PostponeAll /\ Kept
    \/ \E l \in Lifespans : SetLifespan(l) /\ Kept
    \/ Tick /\ Kept

SpecMap == InitMap /\ [][NextMap]_vars

\* The calls of the mapping inside the connection's scopes, entries living
\* long enough not to expire.
InitScopes == InitCommon /\ lifespan = 1 /\ upsert = TRUE

NextScopes ==
    \/ \E k \in TxnKeys, v \in Values : Setitem(k, v) /\ Kept
    \/ \E k \in TxnKeys : Delitem(k) /\ Kept
    \/ EnterScope
    \/ \E closeNow \in BOOLEAN : ExitScope(closeNow)
    \/ ExitScopeFailing
    \/ \E i \in 1..MaxSuspended : Finalize(i)
    \/ Reconnect

SpecScopes == InitScopes /\ [][NextScopes]_vars

\* A file that holds the rows of earlier writers, opened without the right
\* to write.
StoredTables ==
    LET one(k, v) == InsertRow(EmptyTable, k, MaxNow + 1, dumps(v), 0)
    IN {EmptyTable}
       \cup {one(k, v) : k \in Keys, v \in Values}
       \cup {InsertRow(one(p[1], 1), p[2], MaxNow + 1, dumps(2), 0) :
                 p \in {q \in Keys \X Keys : q[1] # q[2]}}

InitReadOnly ==
    /\ now = 0
    /\ mode \in {m \in Modes : ReadOnly(m)}
    /\ file = RegisteredFile
    /\ other = OtherStored
    /\ peer = NoPeer
    /\ attached = FreshFile
    /\ database = Unentered
    /\ disk \in StoredTables
    /\ conn = NewConnection(disk)
    /\ transactions = <<>>
    /\ suspended = <<>>
    /\ entries = <<>>
    /\ ret = Ret("init", "none", NoVal)
    /\ hist = <<>>
    /\ expired = FALSE
    /\ purged = FALSE
    /\ lifespan \in Lifespans
    /\ upsert \in BOOLEAN

NextReadOnly ==
    \/ \E k \in Keys, v \in Values : Setitem(k, v) /\ Kept
    \/ \E k \in Keys : Delitem(k) /\ Kept
    \/ \E k \in Keys : Getitem(k) /\ Kept
    \/ Clear /\ Kept
    \/ \E k \in Keys : Postpone(k) /\ Kept
    \/ PostponeAll /\ Kept

SpecReadOnly == InitReadOnly /\ [][NextReadOnly]_vars

\* A connection that only reads a file in which rows were postponed into the
\* past or outlive the clock, while the clock runs.
AgedTables ==
    StoredTables
    \cup {PostponeKey(tbl, k, -1) : tbl \in StoredTables, k \in Keys}
    \cup {PostponeRows(tbl, MaxNow) : tbl \in StoredTables}

Iterables == {"keys", "values", "items"}
Directions == {"ASC", "DESC"}

InitReads ==
    /\ now = 0
    /\ mode \in Modes
    /\ file = RegisteredFile
    /\ other = OtherStored
    /\ peer = NoPeer
    /\ attached = FreshFile
    /\ database = Unentered
    /\ disk \in AgedTables
    /\ conn = NewConnection(disk)
    /\ transactions = <<>>
    /\ suspended = <<>>
    /\ entries = <<>>
    /\ ret = Ret("init", "none", NoVal)
    /\ hist = <<>>
    /\ expired = FALSE
    /\ purged = FALSE
    /\ lifespan = 1
    /\ upsert = TRUE

NextReads ==
    \/ \E k \in Keys : Contains(k) /\ Kept
    \/ \E k \in Keys : Getitem(k) /\ Kept
    \/ Length /\ Kept
    \/ Bool /\ Kept
    \/ \E what \in Iterables, order \in {"id", "key"}, dir \in Directions :
          Iterate(what, order, dir) /\ Kept
    \/ Tick /\ Kept

SpecReads == InitReads /\ [][NextReads]_vars

\* The set calls of a mapping whose lifespan is negative, zero or positive.
AnyLifespans == {-1, 0, 1}

InitExpiry == InitCommon /\ lifespan \in AnyLifespans /\ upsert \in BOOLEAN

NextExpiry ==
    \/ \E k \in Keys, v \in Values : Setitem(k, v) /\ Kept
    \/ \E l \in AnyLifespans : SetLifespan(l) /\ Kept
    \/ Tick /\ Kept

SpecExpiry == InitExpiry /\ [][NextExpiry]_vars

\* Two connections on one file, each with its own outermost scopes and
\* writing inside them: the first opened for writing, the second for writing
\* or for reading only.  The file holds nothing or one row committed earlier.
InitPeers ==
    /\ now = 0
    /\ mode = "READ_WRITE"
    /\ file = RegisteredFile
    /\ other = OtherStored
    /\ disk \in {EmptyTable} \cup
                {InsertRow(EmptyTable, k, MaxNow + 1, dumps(1), 0) : k \in TxnKeys}
    /\ conn = NewConnection(disk)
    /\ attached = FreshFile
    /\ database = Unentered
    /\ peer \in {Waiting(2, m, NewConnection(disk), <<>>, <<>>, <<>>,
                            Ret("init", "none", NoVal)) :
                    m \in {"READ_WRITE", "READ_ONLY"}}
    /\ transactions = <<>>
    /\ suspended = <<>>
    /\ entries = <<>>
    /\ ret = Ret("init", "none", NoVal)
    /\ hist = <<>>
    /\ expired = FALSE
    /\ purged = FALSE
    /\ lifespan = 1
    /\ upsert = TRUE

NextPeers ==
    \/ \E k \in TxnKeys : transactions # <<>> /\ Setitem(k, NumValues) /\ Kept
    \/ \E k \in TxnKeys : Getitem(k) /\ Kept
    \/ transactions = <<>> /\ EnterScope
    \/ \E closeNow \in BOOLEAN : ExitScope(closeNow)
    \/ ExitScopeFailing
    \/ \E i \in 1..MaxSuspended : Finalize(i)
    \/ Switch

SpecPeers == InitPeers /\ [][NextPeers]_vars

\* Collections constructed on the files a connection may find: fresh ones,
\* ones another program tagged, ones with objects of their own, and ones in
\* which collections of either kind and of any version are registered.
Records == [name : Names, type : Types, version : 0..MaxVersion]
Registries == {rs \in SUBSET Records : \A a, b \in rs : a.name = b.name => a = b}
Files ==
    {[appId |-> a, userVersion |-> u, bookkeeping |-> FALSE, registry |-> {},
      master |-> ms] :
         a \in {0, APPLICATION_ID, ForeignId}, u \in 0..MaxVersion, ms \in SUBSET Names}
    \cup {[appId |-> APPLICATION_ID, userVersion |-> USER_VERSION, bookkeeping |-> TRUE,
           registry |-> rs, master |-> ms] :
              rs \in Registries, ms \in SUBSET Names}

InitRegistry ==
    /\ now = 0
    /\ mode \in Modes
    /\ file \in Files
    /\ other = OtherStored
    /\ peer = NoPeer
    /\ attached = FreshFile
    /\ database = Unentered
    /\ disk = EmptyTable
    /\ conn = NewConnection(disk)
    /\ transactions = <<>>
    /\ suspended = <<>>
    /\ entries = <<>>
    /\ ret = Ret("init", "none", NoVal)
    /\ hist = <<>>
    /\ expired = FALSE
    /\ purged = FALSE
    /\ lifespan = 1
    /\ upsert = TRUE

NextRegistry == \E name \in Names : ConstructMapping(name) /\ Kept

SpecRegistry == InitRegistry /\ [][NextRegistry]_vars

\* A writable connection on a main file that holds no collection, with a
\* second file attached: either file fresh, tagged by this library or by
\* another application, with or without objects of the collections' names.
MainFiles == {f \in Files : ~f.bookkeeping /\ f.userVersion <= USER_VERSION}

InitAttached ==
    /\ now = 0
    /\ mode = "READ_WRITE"
    /\ file \in MainFiles
    /\ attached \in Files
    /\ database = Unentered
    /\ other = OtherStored
    /\ peer = NoPeer
    /\ disk = EmptyTable
    /\ conn = NewConnection(disk)
    /\ transactions = <<>>
    /\ suspended = <<>>
    /\ entries = <<>>
    /\ ret = Ret("init", "none", NoVal)
    /\ hist = <<>>
    /\ expired = FALSE
    /\ purged = FALSE
    /\ lifespan = 1
    /\ upsert = TRUE

NextAttached == \E name \in Names : ConstructAttached(name) /\ Kept

SpecAttached == InitAttached /\ [][NextAttached]_vars

\* A Database object entered and exited as a context manager, the mapping
\* written and read and scopes begun and left through the connection while
\* it is open.
InitDatabase ==
    /\ now = 0
    /\ mode \in Modes
    /\ file = RegisteredFile
    /\ other = OtherStored
    /\ peer = NoPeer
    /\ attached = FreshFile
    /\ database = Unentered
    /\ disk = EmptyTable
    /\ conn = NewConnection(disk)
    /\ transactions = <<>>
    /\ suspended = <<>>
    /\ entries = <<>>
    /\ ret = Ret("init", "none", NoVal)
    /\ hist = <<>>
    /\ expired = FALSE
    /\ purged = FALSE
    /\ lifespan = 1
    /\ upsert = TRUE

NextDatabase ==
    \/ \E canOpen \in BOOLEAN : DatabaseEnter(canOpen) /\ Kept
    \/ \E pragmaFails \in BOOLEAN : DatabaseExit(pragmaFails) /\ Kept
    \/ \E k \in TxnKeys, v \in Values : database.open = 1 /\ Setitem(k, v) /\ Kept
    \/ \E k \in TxnKeys : database.open = 1 /\ Getitem(k) /\ Kept
    \/ database.open = 1 /\ EnterScope
    \/ database.open = 1 /\ ExitScopeFailing

SpecDatabase == InitDatabase /\ [][NextDatabase]_vars

\* ----------------------------------------------------------- properties
Tbl == conn.tbl
Reverse(s) == [i \in 1..Len(s) |-> s[Len(s) + 1 - i]]
Orders == {"id", "key"}

\* C1: while every set call is made with a positive lifespan and meets no
\* expired row, len() is the number of keys set and not deleted since, and
\* contains(k) is true exactly of those keys.
C1_LenAndContains ==
    ~expired =>
        /\ MappingLen(Tbl) = Cardinality(HistKeys(hist))
        /\ \A k \in Keys : MappingContains(Tbl, k) <=> k \in HistKeys(hist)

C1_Witness ==
    /\ ~expired
    /\ ret.op = "delitem" /\ ret.raised = "none"
    /\ Len(hist) = 2 /\ Tbl.seq = 3

\* C2 as stated: set(k, v) keeps the id of a present k and replaces its value,
\* adds exactly one row for an absent k, and leaves every other row as it was;
\* no two rows share a key.
UniqueKeys(tbl) == \A r, s \in tbl.rows : r.key = s.key => r = s

C2_SetPost(k, v) ==
    /\ HasKey(Tbl.rows, k) =>
          /\ HasKey(Tbl'.rows, k)
          /\ RowOf(Tbl'.rows, k).id = RowOf(Tbl.rows, k).id
          /\ RowOf(Tbl'.rows, k).value = dumps(v)
          /\ Cardinality(Tbl'.rows) = Cardinality(Tbl.rows)
    /\ ~HasKey(Tbl.rows, k) =>
          /\ HasKey(Tbl'.rows, k)
          /\ Cardinality(Tbl'.rows) = Cardinality(Tbl.rows) + 1
    /\ \A r \in Tbl.rows : r.key # k => r \in Tbl'.rows
    /\ UniqueKeys(Tbl')

C2_Original == [][\A k \in Keys, v \in Values : Setitem(k, v) => C2_SetPost(k, v)]_vars

\* C2 as amended: set(k, v) is an upsert followed by the purge of the rows
\* whose expire is at or before now.  With a positive lifespan k ends present
\* with value v, under its old id when it was present and as one new row with
\* the highest id when it was absent; with a lifespan of zero or less k ends
\* absent.  Every other row ends unchanged when its expire is later than now
\* and is removed otherwise.  No two rows share a key.
C2_PurgingSetPost(k, v) ==
    /\ lifespan > 0 =>
          /\ HasKey(Tbl'.rows, k)
          /\ RowOf(Tbl'.rows, k).value = dumps(v)
          /\ RowOf(Tbl'.rows, k).expire = now + lifespan
          /\ HasKey(Tbl.rows, k) => RowOf(Tbl'.rows, k).id = RowOf(Tbl.rows, k).id
          /\ ~HasKey(Tbl.rows, k) =>
                \A r \in Tbl.rows : r.id < RowOf(Tbl'.rows, k).id
    /\ lifespan <= 0 => ~HasKey(Tbl'.rows, k)
    /\ \A r \in Tbl.rows : r.key # k =>
          IF r.expire > now THEN r \in Tbl'.rows ELSE ~HasKey(Tbl'.rows, r.key)
    /\ TableKeys(Tbl') \subseteq TableKeys(Tbl) \cup {k}
    /\ UniqueKeys(Tbl')

C2_PurgingUpsert ==
    [][\A k \in Keys, v \in Values : Setitem(k, v) => C2_PurgingSetPost(k, v)]_vars

\* a value was replaced in place: three set calls, two rows, ids 1 and 2
C2_Witness ==
    /\ ret.op = "setitem" /\ ~expired /\ upsert
    /\ Tbl.seq = 3 /\ {r.id : r \in Tbl.rows} = {1, 2}
    /\ Len(hist) = 2

\* C3: get(k) returns the value of the most recent set(k, v) when k is
\* present and raises KeyError when it is absent; the rows stay as they are.
C3_GetPost(k) ==
    /\ HasKey(Tbl.rows, k) =>
          /\ k \in HistKeys(hist)
          /\ ret' = Ret("getitem", "none", HistValue(hist, k))
    /\ ~HasKey(Tbl.rows, k) => ret' = Ret("getitem", "KeyError", NoVal)
    /\ Tbl' = Tbl

C3_Getitem == [][\A k \in Keys : Getitem(k) => C3_GetPost(k)]_vars

\* the value read is the second one given to a key that was set twice
C3_Witness ==
    /\ ret = Ret("getitem", "none", 2)
    /\ upsert /\ ~expired
    /\ Tbl.seq = 2 /\ Tbl.rows = {[id |-> 1, key |-> <<1, 2>>, expire |-> 1, value |-> dumps(2)]}
    /\ hist = << <<(<<1, 2>>), 2>> >>

\* C4: delete(k) of a present key removes the row of k and nothing else;
\* delete(k) of an absent key raises KeyError and removes nothing, so a
\* second delete(k) raises KeyError.
C4_DelPost(k) ==
    /\ HasKey(Tbl.rows, k) =>
          /\ ret' = Ret("delitem", "none", NoVal)
          /\ Tbl'.rows = Tbl.rows \ {RowOf(Tbl.rows, k)}
    /\ ~HasKey(Tbl.rows, k) =>
          /\ ret' = Ret("delitem", "KeyError", NoVal)
          /\ Tbl' = Tbl
    /\ ~HasKey(Tbl'.rows, k)
    /\ Tbl'.seq = Tbl.seq

C4_Delitem == [][\A k \in Keys : Delitem(k) => C4_DelPost(k)]_vars

\* a delete has failed and the two rows of the other keys are still there
C4_Witness ==
    /\ ret = Ret("delitem", "KeyError", NoVal)
    /\ Cardinality(Tbl.rows) = 2
    /\ Tbl.seq = 3

\* C5: iteration in id order yields each present entry once, ascending in
\* row id; a step keeps the relative order of the keys present before and
\* after it and gives a key it adds the highest id; and, while no entry has
\* expired, the iteration is the record of current insertions (hist), where
\* an update keeps the key's place and a key set while absent comes last.
SortedById(tbl) ==
    LET ks == KeysIterator(tbl, "id", "ASC")
    IN /\ Len(ks) = Cardinality(tbl.rows)
       /\ \A i, j \in 1..Len(ks) :
             i < j => RowOf(tbl.rows, ks[i]).id < RowOf(tbl.rows, ks[j]).id

C5_InsertionOrder ==
    /\ SortedById(Tbl)
    /\ ~expired =>
        /\ ItemsIterator(Tbl, "id", "ASC") = hist
        /\ KeysIterator(Tbl, "id", "ASC") = HistOrder(hist)
        /\ ValuesIterator(Tbl, "id", "ASC") = [i \in 1..Len(hist) |-> hist[i][2]]

C5_StepOrder ==
    /\ \A r, s \in Tbl.rows : \A r2, s2 \in Tbl'.rows :
          r2.key = r.key /\ s2.key = s.key => (r.id < s.id <=> r2.id < s2.id)
    /\ \A r2 \in Tbl'.rows :
          ~HasKey(Tbl.rows, r2.key) => \A s2 \in Tbl'.rows : s2.id <= r2.id

C5_IdOrder == [][C5_StepOrder]_vars /\ []C5_InsertionOrder

\* a key was deleted and set again, and now comes after the key set second
C5_Witness ==
    /\ ret.op = "setitem" /\ ~expired
    /\ Tbl.seq = 3
    /\ KeysIterator(Tbl, "id", "ASC") = << <<2>>, <<1>> >>
    /\ ItemsIterator(Tbl, "id", "ASC") = hist

\* C6: for keys, values and items, in id order and in key order, the
\* reversed iteration is the reverse of the forward iteration.
C6_ReversedIteration ==
    \A order \in Orders :
        /\ KeysIterator(Tbl, order, "DESC") = Reverse(KeysIterator(Tbl, order, "ASC"))
        /\ ValuesIterator(Tbl, order, "DESC") = Reverse(ValuesIterator(Tbl, order, "ASC"))
        /\ ItemsIterator(Tbl, order, "DESC") = Reverse(ItemsIterator(Tbl, order, "ASC"))

\* three rows whose id order is not their key order
C6_Witness ==
    /\ Cardinality(Tbl.rows) = 3
    /\ KeysIterator(Tbl, "id", "ASC") # KeysIterator(Tbl, "key", "ASC")
    /\ KeysIterator(Tbl, "id", "DESC") # KeysIterator(Tbl, "key", "ASC")

\* C7: iteration in key order yields every present entry once, ascending in
\* the byte order of the stored keys, whatever the order of the set calls.
BytesBefore(a, b) ==
    \E i \in 1..Len(b) :
        /\ \A j \in 1..(i - 1) : j <= Len(a) /\ a[j] = b[j]
        /\ i > Len(a) \/ a[i] < b[i]

C7_KeyOrder ==
    LET items == ItemsIterator(Tbl, "key", "ASC")
    IN /\ Len(items) = Cardinality(Tbl.rows)
       /\ {items[i] : i \in 1..Len(items)} = {<<r.key, loads(r.value)>> : r \in Tbl.rows}
       /\ \A i, j \in 1..Len(items) : i < j => BytesBefore(items[i][1], items[j][1])
       /\ KeysIterator(Tbl, "key", "ASC") = [i \in 1..Len(items) |-> items[i][1]]
       /\ ValuesIterator(Tbl, "key", "ASC") = [i \in 1..Len(items) |-> items[i][2]]

\* three keys set in descending byte order, one of them a prefix of another
C7_Witness ==
    /\ KeysIterator(Tbl, "id", "ASC") = << <<2>>, <<1, 2>>, <<1>> >>
    /\ KeysIterator(Tbl, "key", "ASC") = << <<1>>, <<1, 2>>, <<2>> >>

\* C8: clear() succeeds and leaves no row; on an empty collection it changes
\* nothing.
C8_ClearPost ==
    /\ ret' = Ret("clear", "none", NoVal)
    /\ Tbl'.rows = {}
    /\ MappingLen(Tbl') = 0
    /\ \A k \in Keys : ~MappingContains(Tbl', k)
    /\ Tbl.rows = {} => Tbl' = Tbl

C8_Clear == [][Clear => C8_ClearPost]_vars

C8_Witness ==
    /\ ret.op = "clear"
    /\ Tbl.seq = 3 /\ Tbl.rows = {}
    /\ hist = <<>> /\ ~expired

\* C9 as stated: when the outermost scope ends with success the writes made
\* in it are committed, and when it ends with a failure the table is as the
\* scope found it and the failure of the body is what is raised.
C9_Original ==
    [][Len(transactions) = 1 /\ entries[1] = disk =>
          /\ (\E closeNow \in BOOLEAN : ExitScope(closeNow)) => disk' = Tbl
          /\ ExitScopeFailing
                => Tbl' = entries[1] /\ disk' = disk /\ ret'.raised = "BodyError"]_vars

\* C10 as stated: when a nested scope ends with a failure the table is as
\* that scope found it: its writes are gone, the earlier ones are there.
C10_Original ==
    [][ExitScopeFailing /\ Len(transactions) > 1 => Tbl' = entries[Len(entries)]]_vars

\* C11 as stated: begin_scope on a connection with no scope and no
\* transaction open leaves the engine in a transaction, begin_scope inside a
\* scope leaves one more savepoint in the engine, and either pushes exactly
\* one handle.
C11_Original ==
    [][EnterScope =>
          /\ Len(transactions') = Len(transactions) + 1
          /\ transactions = <<>> /\ ~conn.inTxn => conn'.inTxn
          /\ transactions # <<>> => Len(conn'.saves) = Len(conn.saves) + 1]_vars

\* C12 as stated: end_scope retires exactly the top scope, and a
\* begin_scope or end_scope that starts with as many handles on the stack as
\* the engine has transactions and savepoints open ends that way too.
EngineOpen(c) ==
    (IF c.inTxn /\ ~c.bySavepoint THEN 1 ELSE 0) + Len(c.saves)

ScopeStep ==
    EnterScope \/ (\E closeNow \in BOOLEAN : ExitScope(closeNow)) \/ ExitScopeFailing

C12_Original ==
    [][/\ ((\E closeNow \in BOOLEAN : ExitScope(closeNow)) \/ ExitScopeFailing)
            => transactions' = SubSeq(transactions, 1, Len(transactions) - 1)
       /\ (ScopeStep /\ EngineOpen(conn) = Len(transactions))
            => EngineOpen(conn') = Len(transactions')]_vars

\* C13 as stated: on a connection not opened for writing, set, delete and
\* clear raise a usage error and issue no statement: the connection is as
\* it was (no transaction was opened for a statement) and so is the file.
MappingWrite ==
    \/ \E k \in Keys, v \in Values : Setitem(k, v)
    \/ \E k \in Keys : Delitem(k)
    \/ Clear

C13_Original ==
    [][ReadOnly(mode) /\ MappingWrite
          => ret'.raised = "UsageError" /\ conn' = conn /\ disk' = disk]_vars

\* C14 as stated: constructing a mapping of an unregistered name on a fresh
\* file opened for writing succeeds, registers the name, creates its table
\* and records version 1; constructing a mapping registered as a mapping adds
\* no record, creates no table and keeps the rows.
C14_FirstPost(name) ==
    /\ ret'.raised = "none"
    /\ HasRecord(file', name)
    /\ RecordOf(file', name).type = "mapping"
    /\ RecordedVersion(file', name) = 1
    /\ name \in file'.master

C14_AgainPost(name) ==
    /\ ret'.raised = "none"
    /\ file'.registry = file.registry
    /\ file'.master = file.master
    /\ conn'.tbl = conn.tbl

C14_Original ==
    [][\A name \in Names :
          ConstructMapping(name) =>
              /\ (file = FreshFile /\ ~ReadOnly(mode)) => C14_FirstPost(name)
              /\ (/\ file.appId = APPLICATION_ID /\ file.userVersion = USER_VERSION
                  /\ HasRecord(file, name)
                  /\ RecordOf(file, name) = [name |-> name, type |-> "mapping",
                                              version |-> 1])
                    => C14_AgainPost(name)]_vars

\* C15: constructing a mapping of a name recorded with another type raises
\* the type-mismatch error and changes nothing: not the file, and not the
\* connection, on which no transaction is opened.
C15_MismatchPost ==
    /\ ret' = Ret("construct", "ValueError: type", NoVal)
    /\ file' = file
    /\ conn' = conn

C15_TypeMismatch ==
    [][\A name \in Names :
          (/\ ConstructMapping(name)
           /\ HasRecord(file, name)
           /\ RecordOf(file, name).type # "mapping")
            => C15_MismatchPost]_vars

C15_Witness ==
    /\ ret = Ret("construct", "ValueError: type", NoVal)
    /\ \E rec \in file.registry : rec.type = "expiring-mapping" /\ rec.version = 1
    /\ ~conn.inTxn

\* C16: constructing a mapping of a name that has no record while an object
\* of the file has that name fails and inserts no record for it; the error
\* is the naming collision whenever the constructor gets as far as looking
\* the name up (the tag is acceptable, and either the connection may write
\* or the tag and the bookkeeping table are in place).
Compatible(f) ==
    /\ f.appId \in {0, APPLICATION_ID}
    /\ f.userVersion \in {0, USER_VERSION}

Tagged(f) == f.appId = APPLICATION_ID /\ f.userVersion = USER_VERSION

C16_CollisionPost(name) ==
    /\ ret'.raised # "none"
    /\ ~HasRecord(file', name)
    /\ file'.registry = file.registry
    /\ file'.master = file.master
    /\ (Compatible(file) /\ (~ReadOnly(mode) \/ (Tagged(file) /\ file.bookkeeping)))
         => ret' = Ret("construct", "NameError", NoVal) /\ conn' = conn

TagKept ==
    /\ file.appId # 0 => file'.appId = file.appId
    /\ file'.appId \in {file.appId, APPLICATION_ID}
    /\ file.userVersion # 0 => file'.userVersion = file.userVersion
    /\ file'.userVersion \in {file.userVersion, USER_VERSION}

NothingCreated ==
    /\ file'.bookkeeping = file.bookkeeping
    /\ file'.registry = file.registry
    /\ file'.master = file.master
    /\ conn' = conn

CompatibilityErrors == {"ValueError: application_id", "ValueError: user_version"}

C17_Original ==
    [][/\ TagKept
       /\ \A name \in Names :
             (ConstructMapping(name) /\ ~Compatible(file))
               => ret'.raised \in CompatibilityErrors /\ NothingCreated]_vars

\* C17 amended: as above, but the error is the engine's refusal to write
\* when the connection is not opened for writing and the application_id is
\* unset, for then the constructor tries to write it before it reads the
\* user_version.
C17_EngineTag ==
    [][/\ TagKept
       /\ \A name \in Names :
             (ConstructMapping(name) /\ ~Compatible(file))
               => /\ NothingCreated
                  /\ ret'.raised =
                        IF file.appId = 0 /\ ReadOnly(mode) THEN "OperationalError"
                        ELSE IF file.appId # 0 /\ file.appId # APPLICATION_ID
                        THEN "ValueError: application_id"
                        ELSE "ValueError: user_version"]_vars

C17_Witness ==
    /\ ret = Ret("construct", "ValueError: user_version", NoVal)
    /\ file.appId = APPLICATION_ID
    /\ file.userVersion = MaxVersion
    /\ ~file.bookkeeping

\* C18 as stated: constructing a mapping whose record has a version above 1
\* fails and leaves the file and the rows as they were.
C18_Original ==
    [][\A name \in Names :
          (/\ ConstructMapping(name)
           /\ HasRecord(file, name)
           /\ RecordOf(file, name).type = "mapping"
           /\ RecordedVersion(file, name) > 1)
            => ret'.raised # "none" /\ file' = file /\ conn' = conn]_vars

\* C19: purge on write.  Right after set(k, v) no row of the collection has
\* an expire at or before now; every row whose expire is later than now is
\* still there (the rows of the other keys as they were, the row of k with
\* its new expire now + lifespan); and no row of the other collection has
\* been removed, expired or not.
C19_SetPurgePost(k) ==
    /\ \A r \in Tbl'.rows : r.expire > now
    /\ \A r \in Tbl.rows : (r.key # k /\ r.expire > now) => r \in Tbl'.rows
    /\ now + lifespan > now =>
          /\ HasKey(Tbl'.rows, k)
          /\ RowOf(Tbl'.rows, k).expire = now + lifespan
    /\ other.rows \subseteq other'.rows

C19_PurgeOnWrite ==
    [][\A k \in Keys, v \in Values :
          (Setitem(k, v) /\ ret'.raised = "none") => C19_SetPurgePost(k)]_vars

\* two keys set, postponed with a negative lifespan, one of them postponed
\* again with a positive one, a third key set: the first row is purged, the
\* other two remain, and the other collection keeps its expired row
C19_Witness ==
    /\ ret = Ret("setitem", "none", NoVal)
    /\ now = 0 /\ lifespan > 0 /\ purged
    /\ Len(hist) = 3
    /\ {r.id : r \in Tbl.rows} = {2, 3}
    /\ \E r \in other.rows : r.expire <= now

\* C20: postpone(k) rewrites the expire of the row of k to now + lifespan and
\* nothing else, postpone_all() the expire of every row and nothing else: ids,
\* keys, values and the number of rows stay, expired rows included, and
\* postpone of an absent key changes nothing and raises nothing.  delete(k)
\* removes no row of another key.  None of them touches the other collection.
SameButExpire(r, s) == r.id = s.id /\ r.key = s.key /\ r.value = s.value

C20_PostponePost(k) ==
    /\ ret'.raised = "none"
    /\ Tbl'.seq = Tbl.seq
    /\ Cardinality(Tbl'.rows) = Cardinality(Tbl.rows)
    /\ \A r \in Tbl.rows :
          IF r.key = k
          THEN \E s \in Tbl'.rows : SameButExpire(r, s) /\ s.expire = now + lifespan
          ELSE r \in Tbl'.rows
    /\ ~HasKey(Tbl.rows, k) => Tbl' = Tbl
    /\ other' = other

C20_PostponeAllPost ==
    /\ ret'.raised = "none"
    /\ Tbl'.seq = Tbl.seq
    /\ Cardinality(Tbl'.rows) = Cardinality(Tbl.rows)
    /\ \A r \in Tbl.rows :
          \E s \in Tbl'.rows : SameButExpire(r, s) /\ s.expire = now + lifespan
    /\ other' = other

C20_DeleteFrame(k) ==
    /\ \A r \in Tbl.rows : r.key # k => r \in Tbl'.rows
    /\ other' = other

C20_PostponeFrame ==
    [][/\ \A k \in Keys : Postpone(k) => C20_PostponePost(k)
       /\ PostponeAll => C20_PostponeAllPost
       /\ \A k \in Keys : Delitem(k) => C20_DeleteFrame(k)]_vars

\* one key postponed after every row had been postponed into the past: its
\* row is live again and the expired row of the other key is still there
C20_Witness ==
    /\ ret = Ret("postpone", "none", NoVal)
    /\ now = 0 /\ lifespan > 0
    /\ Cardinality(Tbl.rows) = 2
    /\ \E r \in Tbl.rows : r.expire <= now
    /\ \E r \in Tbl.rows : r.expire = now + lifespan

\* C21: a read (contains, get, len, bool, an iteration of keys, values or
\* items) changes no row of the collection, of the other collection or of the
\* file; what it returns is what it would return were every row past its
\* expiry still live, so a row with expire <= now is found, counted and
\* iterated like any other; and along a run of reads no row ever disappears,
\* however far the clock moves.
Revived(tbl, t) ==
    [tbl EXCEPT !.rows = {IF r.expire <= t THEN [r EXCEPT !.expire = t + 1] ELSE r :
                              r \in tbl.rows}]

C21_ReadPost ==
    /\ \A k \in Keys :
          Getitem(k) =>
             /\ ret' = GetitemResult(Revived(Tbl, now), k)
             /\ HasKey(Tbl.rows, k) =>
                   ret' = Ret("getitem", "none", loads(RowOf(Tbl.rows, k).value))
    /\ \A k \in Keys :
          Contains(k) => ret'.val = (k \in TableKeys(Revived(Tbl, now)))
    /\ Length => ret'.val = Cardinality(Revived(Tbl, now).rows)
    /\ Bool => ret'.val = (Revived(Tbl, now).rows # {})
    /\ \A what \in Iterables, order \in Orders, dir \in Directions :
          Iterate(what, order, dir) =>
             /\ ret'.val = IterateResult(what, Revived(Tbl, now), order, dir)
             /\ Len(ret'.val) = Cardinality(Tbl.rows)

C21_ReadsPurgeNothing ==
    [][/\ C21_ReadPost
       /\ conn' = conn /\ disk' = disk /\ other' = other /\ file' = file]_vars

\* a get has returned the value of a row that expired as the clock moved
C21_Witness ==
    /\ ret.op = "getitem" /\ ret.raised = "none"
    /\ now = MaxNow
    /\ \E r \in Tbl.rows : r.expire = MaxNow /\ ret.val = loads(r.value)
    /\ Cardinality(Tbl.rows) = 2

\* C22: setting the lifespan changes no row (no expire in particular) and
\* nothing else of the store; the expire that set, postpone and postpone_all
\* stamp is now plus the lifespan in force at the call.
C22_Stamped(k) ==
    \A r \in Tbl'.rows : r.key = k => r.expire = now + lifespan

C22_LifespanFrame ==
    [][/\ \A l \in Lifespans :
             SetLifespan(l) =>
                /\ lifespan' = l
                /\ conn' = conn /\ disk' = disk /\ other' = other /\ file' = file
       /\ \A k \in Keys, v \in Values : Setitem(k, v) => C22_Stamped(k)
       /\ \A k \in Keys : Postpone(k) => C22_Stamped(k)
       /\ PostponeAll => \A k \in Keys : C22_Stamped(k)]_vars

\* the lifespan has just been made negative while a row stamped under the
\* positive one keeps its expire
C22_Witness ==
    /\ ret.op = "lifespan"
    /\ lifespan < 0
    /\ \E r \in Tbl.rows : r.expire = now + 1 /\ r.expire # now + lifespan

\* A table of the layout that preceded the registry: the table is there, the
\* file carries no tag, and nothing is recorded under its name.
Legacy(f, name) ==
    /\ name \in f.master
    /\ ~HasRecord(f, name)
    /\ f.appId = 0 /\ f.userVersion = 0

\* C24 as stated: constructing a mapping over a legacy table on a writable
\* connection succeeds and migrates it: the table is there again under its
\* name with the keys it had, and the name is recorded with version 1.
C24_Original ==
    [][\A name \in Names :
          (ConstructMapping(name) /\ Legacy(file, name) /\ ~ReadOnly(mode))
            => /\ ret'.raised = "none"
               /\ name \in file'.master
               /\ TableKeys(conn'.tbl) = TableKeys(conn.tbl)
               /\ HasRecord(file', name)
               /\ RecordedVersion(file', name) = 1]_vars

\* C25 as stated, for the connection opened read-only beside a writer: what a
\* get returns is what the file holds, never a change the writer has not
\* committed; and a scope it begins right after the writer has ended its
\* outermost scope without a failure finds the table as the writer left it.
C25_Original ==
    [][mode = "READ_ONLY" /\ peer.mode = "READ_WRITE" =>
          /\ \A k \in TxnKeys : Getitem(k) => ret' = GetitemResult(disk, k)
          /\ (EnterScope /\ peer.ret.op = "exit" /\ peer.transactions = <<>>)
                => conn.tbl = peer.conn.tbl]_vars

\* C26 as stated, for two connections opened for writing: never do both
\* have an outermost scope open.
C26_Original ==
    (peer.id # 0 /\ mode = "READ_WRITE" /\ peer.mode = "READ_WRITE")
      => ~(transactions # <<>> /\ peer.transactions # <<>>)

\* C27: right after set(k, v) the key is present exactly when the lifespan
\* is positive, and then with value v: with a lifespan of zero or less the
\* row just written has expire <= now and the purge of the same statement
\* removes it.
C27_SetLeaves(k, v) ==
    /\ HasKey(Tbl'.rows, k) <=> lifespan > 0
    /\ HasKey(Tbl'.rows, k) => RowOf(Tbl'.rows, k).value = dumps(v)
    /\ ret' = Ret("setitem", "none", NoVal)

C27_ExpiredOnArrival ==
    [][\A k \in Keys, v \in Values : Setitem(k, v) => C27_SetLeaves(k, v)]_vars

\* two set calls under a lifespan of zero have each left no row behind
C27_Witness ==
    /\ ret.op = "setitem"
    /\ lifespan = 0
    /\ Tbl.seq = 2 /\ Tbl.rows = {}

\* C28 as stated: a construction that raises a compatibility, naming
\* collision or type mismatch error leaves the file as it was.
ConstructionErrors == CompatibilityErrors \cup {"NameError", "ValueError: type"}

C28_Original ==
    [][\A name \in Names :
          (ConstructMapping(name) /\ ret'.raised \in ConstructionErrors)
            => file' = file]_vars

\* C28 as amended: a construction that raises the type mismatch error or the
\* compatibility error on the application_id leaves file and connection as
\* they were.  One that raises the compatibility error on the user_version
\* changes at most the application_id, written when it was unset; one that
\* raises the naming collision error changes at most the tag, of which the
\* unset components are written, and the bookkeeping table, created when it
\* was absent.  In every case the records and the objects of the file are
\* unchanged and the connection has no transaction more than before.
C28_FailedPost ==
    /\ file'.registry = file.registry
    /\ file'.master = file.master
    /\ conn' = conn
    /\ ret'.raised \in {"ValueError: type", "ValueError: application_id"} => file' = file
    /\ ret'.raised = "ValueError: user_version" =>
          /\ file' = [file EXCEPT !.appId = APPLICATION_ID]
          /\ file.appId \in {0, APPLICATION_ID}
    /\ ret'.raised = "NameError" =>
          file' = [file EXCEPT !.appId = APPLICATION_ID, !.userVersion = USER_VERSION,
                               !.bookkeeping = TRUE]

C28_FailedConstruction ==
    [][\A name \in Names :
          (ConstructMapping(name) /\ ret'.raised \in ConstructionErrors)
            => C28_FailedPost]_vars

\* the construction over an object nobody registered has failed on a
\* writable connection, in a file that holds no record at all
C28_Witness ==
    /\ ret = Ret("construct", "NameError", NoVal)
    /\ mode = "READ_WRITE"
    /\ Tagged(file) /\ file.bookkeeping
    /\ file.registry = {} /\ file.master = Names

\* C29: a set call leaves the rows that the other implementation of set
\* would have left from the same table, key, value, lifespan and clock: the
\* same ids, keys, values and expire stamps, the same rows purged.  The two
\* differ in the AUTOINCREMENT counter alone, which the upsert statement
\* advances when it replaces a row and the UPDATE of the fallback does not.
C29_OtherSet(k, v) == SetitemTable(conn.tbl, k, v, lifespan, now, ~upsert)

C29_SameRows ==
    [][\A k \in Keys, v \in Values :
          (Setitem(k, v) /\ ret'.raised = "none") =>
              /\ conn'.tbl.rows = C29_OtherSet(k, v).rows
              /\ (HasKey(conn.tbl.rows, k) /\ upsert) =>
                    /\ conn'.tbl.seq = conn.tbl.seq + 1
                    /\ C29_OtherSet(k, v).seq = conn.tbl.seq]_vars

\* on the engine without upsert a set has replaced the first row, the counter
\* where it was, and its trigger has purged the second row
C29_Witness ==
    /\ ~upsert
    /\ ret = Ret("setitem", "none", NoVal)
    /\ purged
    /\ conn.tbl.seq = 2
    /\ \E r \in conn.tbl.rows : conn.tbl.rows = {r} /\ r.id = 1

\* C30 as stated: the construction of a collection in the attached file
\* checks the tag of that file and looks for the name among its objects.
\* With acceptable tags on both files, an unregistered object of the name in
\* the attached file raises the naming collision error, and an object of the
\* name in the main file alone does not; a tag of the attached file that is
\* not this library's raises the compatibility error, and one of the main
\* file alone does not.
C30_Original ==
    [][\A name \in Names : ConstructAttached(name) =>
          /\ (Compatible(file) /\ Compatible(attached)) =>
                /\ (name \in attached.master /\ ~HasRecord(attached, name))
                      => ret'.raised = "NameError"
                /\ (name \in file.master /\ name \notin attached.master)
                      => ret'.raised # "NameError"
          /\ ~Compatible(attached) => ret'.raised \in CompatibilityErrors
          /\ (~Compatible(file) /\ Compatible(attached))
                => ret'.raised \notin CompatibilityErrors]_vars

\* C31: the Database object has at most one connection open, and has it
\* only while _connection is set; __enter__ on a Database whose _connection
\* is set raises the assertion and changes nothing; __exit__ on one leaves
\* _connection unset and no connection open, whether it returns or raises;
\* and __enter__ on a Database whose _connection is unset opens a connection
\* whenever the file can be opened.
C31_OneConnection ==
    /\ database.open <= 1
    /\ database.open = 1 => database.held

C31_EnterExit ==
    /\ \A canOpen \in BOOLEAN :
          DatabaseEnter(canOpen) =>
              /\ database.held =>
                    /\ ret' = Ret("database enter", "AssertionError", NoVal)
                    /\ database' = database /\ conn' = conn
              /\ (~database.held /\ canOpen) =>
                    /\ ret' = Ret("database enter", "none", NoVal)
                    /\ database'.held /\ database'.open = 1
    /\ \A pragmaFails \in BOOLEAN :
          (DatabaseExit(pragmaFails) /\ database.held) =>
              /\ ~database'.held /\ database'.open = 0
              /\ ret'.raised \in {"none", "OperationalError"}

C31_NotReentrant == [][C31_EnterExit]_vars /\ []C31_OneConnection

\* the Database has been entered again after an exit of it raised, and a
\* further __enter__ has then failed on the assertion
C31_Witness ==
    /\ database.failed
    /\ database.held /\ database.open = 1
    /\ ret = Ret("database enter", "AssertionError", NoVal)

====
